---- MODULE Spec2Model ----
(***************************************************************************)
(* Model of read_fields_from_xml_file_and_dump_to_excel.py:                *)
(*   extract_from_xml, extract_from_met and process_folder.                *)
(*                                                                         *)
(* Three specifications share the variables:                               *)
(*   Spec     one run of process_folder over a directory listing           *)
(*   SpecXml  extract_from_xml applied to one file and one mapping         *)
(*   SpecMet  extract_from_met applied to one file and one mapping         *)
(***************************************************************************)
EXTENDS Integers, Sequences, FiniteSets, TLC

VARIABLES
    listing,      \* what os.listdir returned: a sequence of [name, content]
    xml_mapping,  \* ordered mapping: sequence of <<column, locator>>
    met_mapping,  \* ordered mapping: sequence of <<column, locator>>
    idx,          \* position of the for loop in listing
    all_records,  \* the list all_records
    trace,        \* per processed entry: the extractor called and the value of `record`
    pc,           \* "loop", "done", "raised" (process_folder) or "call", "returned"
    writes,       \* number of times df.to_excel ran
    output,       \* the exported table, or NoTable
    warned,       \* the [WARNING] line was printed
    fn_file,      \* the file handed to an extractor called on its own
    fn_result     \* what that extractor returned

vars == <<listing, xml_mapping, met_mapping, idx, all_records, trace, pc,
          writes, output, warned, fn_file, fn_result>>

(***************************************************************************)
(* Bounds of the model.                                                    *)
(***************************************************************************)
MaxFiles == 2
MaxMap == 2
MaxChildren == 2
MaxLines == 2
MaxLineLen == 2

(***************************************************************************)
(* Values.  A Python text is a sequence of chunks; ":" and " " are the     *)
(* separator and a whitespace character, any other chunk is opaque text.   *)
(* A value is a text or None.                                              *)
(***************************************************************************)
None == [isNone |-> TRUE, text |-> <<>>]
Some(t) == [isNone |-> FALSE, text |-> t]

SeqsUpTo(S, n) == UNION {[1..k -> S] : k \in 0..n}
Range(s) == {s[i] : i \in DOMAIN s}

(***************************************************************************)
(* XML documents: an element has a tag, a text (None for <x/>) and         *)
(* children in document order.                                             *)
(***************************************************************************)
Elem(tag, text, children) == [tag |-> tag, text |-> text, children |-> children]
Leaf(tag, t) == Elem(tag, Some(<<t>>), <<>>)

\* <r><details><name>Ann</name><age>30</age></details>
\*    <contact><email>a@x.com</email></contact></r>
DocAnn ==
    Elem("r", None,
         << Elem("details", None, <<Leaf("name", "Ann"), Leaf("age", "30")>>),
            Elem("contact", None, <<Leaf("email", "a@x.com")>>) >>)

\* <r><details><name>Bob</name><age/></details></r>
DocBob ==
    Elem("r", None,
         << Elem("details", None, <<Leaf("name", "Bob"), Elem("age", None, <<>>)>>) >>)

\* What a path names on disk: a well-formed document, bytes that are not
\* well-formed XML, plain "key: value" text, or something open() fails on.
XmlFile(root) == [kind |-> "doc", root |-> root, lines |-> <<>>]
TextFile(lines) == [kind |-> "text", root |-> Elem("", None, <<>>), lines |-> lines]
Malformed == [kind |-> "malformed", root |-> Elem("", None, <<>>), lines |-> <<>>]
Unreadable == [kind |-> "unreadable", root |-> Elem("", None, <<>>), lines |-> <<>>]
NoFile == [kind |-> "nofile", root |-> Elem("", None, <<>>), lines |-> <<>>]

MetBob == TextFile(<< <<"Full Name", ":", " ", "Bob">>, <<"Age", ":", " ", "25">> >>)

(***************************************************************************)
(* What an extractor hands back: a dict, None, or a propagating exception. *)
(***************************************************************************)
Returned(rec) == [status |-> "record", rec |-> rec]
ReturnedNone == [status |-> "none", rec |-> <<>>]
Raised == [status |-> "raise", rec |-> <<>>]
NoResult == [status |-> "pending", rec |-> <<>>]

(***************************************************************************)
(* Mappings: an ordered dict is a sequence of <<column, locator>> with     *)
(* pairwise different columns.                                             *)
(***************************************************************************)
Columns == {"Full Name", "Age", "Email Address"}

Keys(mapping) == [i \in DOMAIN mapping |-> mapping[i][1]]

IsDict(mapping) ==
    \A i, j \in DOMAIN mapping : mapping[i][1] = mapping[j][1] => i = j

\* __main__: the locator the script gives each column
XmlPathOf(c) ==
    CASE c = "Full Name" -> <<"details", "name">>
      [] c = "Age" -> <<"details", "age">>
      [] c = "Email Address" -> <<"contact", "email">>

MetKeyOf(c) == <<c>>

XmlMappings ==
    {m \in SeqsUpTo({<<c, XmlPathOf(c)>> : c \in Columns}, MaxMap) : IsDict(m)}

MetMappings ==
    {m \in SeqsUpTo({<<c, MetKeyOf(c)>> : c \in Columns}, MaxMap) : IsDict(m)}

(***************************************************************************)
(* root.find(path): ElementPath walks the path one step at a time over the *)
(* stream of elements selected so far and find() takes the first result.   *)
(* A path "./t1/t2" is the sequence <<t1, t2>>.                            *)
(***************************************************************************)
RECURSIVE ChildrenWithTag(_, _)
ChildrenWithTag(nodes, tag) ==
    IF nodes = <<>> THEN <<>>
    ELSE SelectSeq(Head(nodes).children, LAMBDA e : e.tag = tag)
         \o ChildrenWithTag(Tail(nodes), tag)

RECURSIVE FindAll(_, _)
FindAll(nodes, path) ==
    IF path = <<>> THEN nodes
    ELSE FindAll(ChildrenWithTag(nodes, Head(path)), Tail(path))

\* variant: the last match instead of the first
FindText_last(root, path) ==
    LET found == FindAll(<<root>>, path)
    IN  IF found = <<>> THEN None ELSE found[Len(found)].text

\* element.text if element is not None else None
FindText(root, path) ==
    LET found == FindAll(<<root>>, path)
    IN  IF found = <<>> THEN None ELSE Head(found).text

\* record = {}; for column_name, xml_path in data_mapping.items(): record[...] = ...
RECURSIVE XmlRecord(_, _, _)
XmlRecord(root, mapping, record) ==
    IF mapping = <<>> THEN record
    ELSE XmlRecord(root, Tail(mapping),
                   (Head(mapping)[1] :> FindText(root, Head(mapping)[2])) @@ record)

\* variant: the except clause is missing, a ParseError propagates
extract_from_xml_uncaught(xml_file, data_mapping) ==
    CASE xml_file.kind = "doc" -> Returned(XmlRecord(xml_file.root, data_mapping, <<>>))
      [] OTHER -> Raised

extract_from_xml(xml_file, data_mapping) ==
    CASE xml_file.kind = "doc" -> Returned(XmlRecord(xml_file.root, data_mapping, <<>>))
      [] xml_file.kind \in {"malformed", "text"} -> ReturnedNone
      [] OTHER -> Raised

(***************************************************************************)
(* extract_from_met.                                                       *)
(***************************************************************************)
IsSpace(ch) == ch = " "

\* str.strip(): drop whitespace at both ends
RECURSIVE LStrip(_)
LStrip(s) == IF s # <<>> /\ IsSpace(Head(s)) THEN LStrip(Tail(s)) ELSE s

RECURSIVE RStrip(_)
RStrip(s) ==
    IF s # <<>> /\ IsSpace(s[Len(s)]) THEN RStrip(SubSeq(s, 1, Len(s) - 1)) ELSE s

Strip(s) == RStrip(LStrip(s))

\* ':' in line
HasColon(line) == \E i \in DOMAIN line : line[i] = ":"

\* line.split(':', 1): scan from the left, cut at the first ':' met
RECURSIVE SplitOnce(_, _)
SplitOnce(left, rest) ==
    IF rest = <<>> THEN <<left>>
    ELSE IF Head(rest) = ":" THEN <<left, Tail(rest)>>
    ELSE SplitOnce(Append(left, Head(rest)), Tail(rest))

\* variant: setdefault, the first occurrence of a key stays
DictStore_keep_first(file_data, key, value) == file_data @@ (key :> value)

\* file_data[key] = value
DictStore(file_data, key, value) == (key :> value) @@ file_data

\* file_data.get(key)
DictGet(file_data, key) ==
    IF key \in DOMAIN file_data THEN Some(file_data[key]) ELSE None

\* file_data = {}; for line in lines: if ':' in line: ...
RECURSIVE FileData(_, _)
FileData(lines, file_data) ==
    IF lines = <<>> THEN file_data
    ELSE IF HasColon(Head(lines))
         THEN LET kv == SplitOnce(<<>>, Head(lines))
              IN  FileData(Tail(lines), DictStore(file_data, Strip(kv[1]), Strip(kv[2])))
         ELSE FileData(Tail(lines), file_data)

\* record = {column_name: file_data.get(met_key) for ... in data_mapping.items()}
RECURSIVE MetRecord(_, _, _)
MetRecord(file_data, mapping, record) ==
    IF mapping = <<>> THEN record
    ELSE MetRecord(file_data, Tail(mapping),
                   (Head(mapping)[1] :> DictGet(file_data, Head(mapping)[2])) @@ record)

extract_from_met(met_file, data_mapping) ==
    CASE met_file.kind = "unreadable" -> ReturnedNone
      [] OTHER -> Returned(MetRecord(FileData(met_file.lines, <<>>), data_mapping, <<>>))

(***************************************************************************)
(* process_folder.                                                         *)
(***************************************************************************)
\* str.lower() on the characters file names are built from
LowerChar(ch) ==
    CASE ch = "X" -> "x"
      [] ch = "M" -> "m"
      [] ch = "L" -> "l"
      [] ch = "E" -> "e"
      [] ch = "T" -> "t"
      [] OTHER -> ch

Lower(s) == [i \in DOMAIN s |-> LowerChar(s[i])]

\* str.endswith(suffix)
EndsWith(s, suffix) ==
    /\ Len(s) >= Len(suffix)
    /\ SubSeq(s, Len(s) - Len(suffix) + 1, Len(s)) = suffix

DotXml == <<".", "x", "m", "l">>
DotMet == <<".", "m", "e", "t">>

\* the directory entries a run may meet: a name and what the name leads to
Entry(name, content) == [name |-> name, content |-> content]

NameA == <<"a", ".", "x", "m", "l">>
NameB == <<"b", ".", "X", "m", "L">>
NameC == <<"c", ".", "M", "E", "T">>
NameD == <<"d", ".", "t", "x", "t">>

Entries ==
    { Entry(NameA, XmlFile(DocAnn)), Entry(NameA, Malformed), Entry(NameA, Unreadable),
      Entry(NameB, XmlFile(DocBob)), Entry(NameB, Malformed),
      Entry(NameC, MetBob), Entry(NameC, Unreadable),
      Entry(NameD, MetBob) }

\* os.listdir: any order, no name twice
Listings ==
    {l \in SeqsUpTo(Entries, MaxFiles) :
        \A i, j \in DOMAIN l : l[i].name = l[j].name => i = j}

\* `if record:` -- None and the empty dict are both false
Truthy(record) == record.status = "record" /\ DOMAIN record.rec # {}

\* variant: the export is not guarded
ListTruthy_always(list) == TRUE

\* `if all_records:`
ListTruthy(list) == list # <<>>

\* variant: the export is indented into the loop body
LoopDone_early == idx > Len(listing) \/ idx > 1

\* the for loop has run out of entries
LoopDone == idx > Len(listing)

\* list(dict.fromkeys(keys)): first occurrence of each key, in order
RECURSIVE DictFromKeys(_, _)
DictFromKeys(keys, acc) ==
    IF keys = <<>> THEN acc
    ELSE IF Head(keys) \in Range(acc) THEN DictFromKeys(Tail(keys), acc)
    ELSE DictFromKeys(Tail(keys), Append(acc, Head(keys)))

\* variant: the two key lists are concatenated the other way round
AllColumns_met_first(xm, mm) == DictFromKeys(Keys(mm) \o Keys(xm), <<>>)

AllColumns(xm, mm) == DictFromKeys(Keys(xm) \o Keys(mm), <<>>)

\* variant: pd.DataFrame(records) without columns=, rows keep their own keys
DataFrame_no_reindex(records, columns) ==
    [columns |-> columns, rows |-> records]

\* pd.DataFrame(records, columns=columns): one row per record, reindexed
\* to the columns; a key the record lacks gives an empty cell
DataFrame(records, columns) ==
    [columns |-> columns,
     rows |-> [i \in DOMAIN records |->
                 [c \in Range(columns) |->
                     IF c \in DOMAIN records[i] THEN records[i][c] ELSE None]]]

NoTable == [columns |-> <<>>, rows |-> <<>>]

\* what the for loop leaves in all_records after a listing it gets through
RECURSIVE Collected(_, _)
Collected(entries, xm) ==
    IF entries = <<>> THEN <<>>
    ELSE LET record == IF EndsWith(Lower(Head(entries).name), DotXml)
                       THEN extract_from_xml(Head(entries).content, xm)
                       ELSE ReturnedNone
         IN  (IF Truthy(record) THEN <<record.rec>> ELSE <<>>)
             \o Collected(Tail(entries), xm)

Step(extractor, record) == [extractor |-> extractor, record |-> record]

Init ==
    /\ listing \in Listings
    /\ xml_mapping \in XmlMappings
    /\ met_mapping \in MetMappings
    /\ idx = 1
    /\ all_records = <<>>
    /\ trace = <<>>
    /\ pc = "loop"
    /\ writes = 0
    /\ output = NoTable
    /\ warned = FALSE
    /\ fn_file = NoFile
    /\ fn_result = NoResult

\* one iteration on an entry whose lowered name ends in ".xml"
ProcessXml ==
    /\ pc = "loop"
    /\ ~LoopDone
    /\ EndsWith(Lower(listing[idx].name), DotXml)
    /\ LET record == extract_from_xml(listing[idx].content, xml_mapping)
       IN  /\ trace' = Append(trace, Step("extract_from_xml", record))
           /\ IF record.status = "raise"
              THEN /\ pc' = "raised"
                   /\ UNCHANGED <<idx, all_records>>
              ELSE /\ pc' = "loop"
                   /\ idx' = idx + 1
                   /\ all_records' = IF Truthy(record)
                                     THEN Append(all_records, record.rec)
                                     ELSE all_records
    /\ UNCHANGED <<listing, xml_mapping, met_mapping, writes, output, warned,
                   fn_file, fn_result>>

\* one iteration on any other entry: record stays None
SkipEntry ==
    /\ pc = "loop"
    /\ ~LoopDone
    /\ ~EndsWith(Lower(listing[idx].name), DotXml)
    /\ trace' = Append(trace, Step("none", ReturnedNone))
    /\ idx' = idx + 1
    /\ UNCHANGED <<listing, xml_mapping, met_mapping, all_records, pc, writes,
                   output, warned, fn_file, fn_result>>

\* if all_records: build the frame and write it
Export ==
    /\ pc = "loop"
    /\ LoopDone
    /\ ListTruthy(all_records)
    /\ output' = DataFrame(all_records, AllColumns(xml_mapping, met_mapping))
    /\ writes' = writes + 1
    /\ pc' = "done"
    /\ UNCHANGED <<listing, xml_mapping, met_mapping, idx, all_records, trace,
                   warned, fn_file, fn_result>>

\* else: print the warning
Warn ==
    /\ pc = "loop"
    /\ LoopDone
    /\ ~ListTruthy(all_records)
    /\ warned' = TRUE
    /\ pc' = "done"
    /\ UNCHANGED <<listing, xml_mapping, met_mapping, idx, all_records, trace,
                   writes, output, fn_file, fn_result>>

Next == ProcessXml \/ SkipEntry \/ Export \/ Warn

Spec == Init /\ [][Next]_vars

(***************************************************************************)
(* The extractors called on their own.                                     *)
(***************************************************************************)
XTexts == {None, Some(<<"p">>), Some(<<"q">>)}

XInner ==
    { <<>>,
      <<Leaf("a", "x")>>,
      <<Leaf("b", "y"), Leaf("a", "z")>>,
      <<Elem("a", None, <<>>), Leaf("a", "w")>> }

XChildren == {Elem(tag, text, inner) : tag \in {"a", "b"}, text \in XTexts, inner \in XInner}

XmlInputs ==
    {XmlFile(Elem("r", None, kids)) : kids \in SeqsUpTo(XChildren, MaxChildren)}
        \cup {Malformed, Unreadable}

XmlProbeMappings ==
    { <<>>,
      << <<"Full Name", <<"a">>>>, <<"Age", <<"a", "a">>>>, <<"Email Address", <<"b", "a">>>> >>,
      << <<"Age", <<"b">>>>, <<"Full Name", <<"a", "b">>>> >> }

InitXml ==
    /\ fn_file \in XmlInputs
    /\ xml_mapping \in XmlProbeMappings
    /\ met_mapping = <<>>
    /\ listing = <<>>
    /\ idx = 1
    /\ all_records = <<>>
    /\ trace = <<>>
    /\ pc = "call"
    /\ writes = 0
    /\ output = NoTable
    /\ warned = FALSE
    /\ fn_result = NoResult

CallXml ==
    /\ pc = "call"
    /\ fn_result' = extract_from_xml(fn_file, xml_mapping)
    /\ pc' = "returned"
    /\ UNCHANGED <<listing, xml_mapping, met_mapping, idx, all_records, trace,
                   writes, output, warned, fn_file>>

NextXml == CallXml

SpecXml == InitXml /\ [][NextXml]_vars

MetChars == {"k", ":", " "}

MetLines == SeqsUpTo(MetChars, MaxLineLen)

MetInputs ==
    {TextFile(lines) : lines \in SeqsUpTo(MetLines, MaxLines)} \cup {Unreadable}

MetProbeMappings ==
    { << <<"Full Name", <<>>>>, <<"Age", <<"k">>>>, <<"Email Address", <<"k", "k">>>> >>,
      << <<"Age", <<"k">>>>, <<"Full Name", <<>>>> >> }

InitMet ==
    /\ fn_file \in MetInputs
    /\ met_mapping \in MetProbeMappings
    /\ xml_mapping = <<>>
    /\ listing = <<>>
    /\ idx = 1
    /\ all_records = <<>>
    /\ trace = <<>>
    /\ pc = "call"
    /\ writes = 0
    /\ output = NoTable
    /\ warned = FALSE
    /\ fn_result = NoResult

CallMet ==
    /\ pc = "call"
    /\ fn_result' = extract_from_met(fn_file, met_mapping)
    /\ pc' = "returned"
    /\ UNCHANGED <<listing, xml_mapping, met_mapping, idx, all_records, trace,
                   writes, output, warned, fn_file>>

NextMet == CallMet

SpecMet == InitMet /\ [][NextMet]_vars

(***************************************************************************)
(* Properties.                                                             *)
(***************************************************************************)
IsXmlName(name) == EndsWith(Lower(name), DotXml)
IsMetName(name) == EndsWith(Lower(name), DotMet)
NotWellFormed(content) == content.kind \in {"malformed", "text"}
KeySet(mapping) == {mapping[i][1] : i \in DOMAIN mapping}
Processed == SubSeq(listing, 1, idx - 1)

\* C1: no per-file error is fatal -- an entry that cannot be opened is
\* skipped (its extraction gives None) and the run never ends in an exception.
C1_NoEntryErrorIsFatal ==
    /\ pc # "raised"
    /\ \A i \in DOMAIN trace :
          listing[i].content.kind = "unreadable" => trace[i].record.status # "raise"

\* C2: a ".xml" entry that is not well-formed XML gives None without raising,
\* appends nothing, and all_records is what the run collects from the entries
\* processed so far with the malformed ones taken out.
C2_MalformedSkipped ==
    /\ \A i \in DOMAIN trace :
          (IsXmlName(listing[i].name) /\ NotWellFormed(listing[i].content))
              => trace[i].record = ReturnedNone
    /\ pc = "raised" => ~NotWellFormed(listing[idx].content)
    /\ all_records =
          Collected(SelectSeq(Processed,
                              LAMBDA e : ~(IsXmlName(e.name) /\ NotWellFormed(e.content))),
                    xml_mapping)

C2_Witness ==
    /\ pc = "done"
    /\ Len(all_records) >= 1
    /\ \E i \in DOMAIN listing :
          IsXmlName(listing[i].name) /\ NotWellFormed(listing[i].content)

\* C3: every processed entry named *.xml went to extract_from_xml and every
\* processed entry named *.met went to extract_from_met, a readable one
\* giving a record.
C3_DispatchBySuffix ==
    \A i \in DOMAIN trace :
        /\ IsXmlName(listing[i].name) => trace[i].extractor = "extract_from_xml"
        /\ IsMetName(listing[i].name) =>
              /\ trace[i].extractor = "extract_from_met"
              /\ listing[i].content.kind # "unreadable" => trace[i].record.status = "record"

\* C4: all_records is exactly the non-null records the extractors returned,
\* each once, in order.
C4_NonNullAppended ==
    all_records =
        [i \in 1..Len(SelectSeq(trace, LAMBDA t : t.record.status = "record")) |->
            SelectSeq(trace, LAMBDA t : t.record.status = "record")[i].record.rec]

\* C5: once process_folder has returned, the file was written iff a record
\* was collected; with none collected nothing was written and the warning
\* was printed.
C5_WrittenIffRecords ==
    pc = "done" =>
        /\ (writes >= 1) <=> (Len(all_records) >= 1)
        /\ Len(all_records) = 0 => (writes = 0 /\ output = NoTable /\ warned)
        /\ Len(all_records) >= 1 => ~warned

C5_Witness ==
    /\ pc = "done"
    /\ warned
    /\ writes = 0
    /\ \E i \in DOMAIN trace : trace[i].extractor = "extract_from_xml"

\* C6: the exported columns are the XML mapping's keys in order, then the
\* key-value mapping's keys not among them in order, none twice -- a function
\* of the two mappings only.
C6_ColumnOrder ==
    writes >= 1 =>
        /\ output.columns =
              Keys(xml_mapping)
                  \o SelectSeq(Keys(met_mapping), LAMBDA k : k \notin KeySet(xml_mapping))
        /\ \A i, j \in DOMAIN output.columns :
              output.columns[i] = output.columns[j] => i = j

C6_Witness ==
    /\ writes = 1
    /\ Len(met_mapping) = 2
    /\ met_mapping[1][1] \notin KeySet(xml_mapping)
    /\ met_mapping[2][1] \in KeySet(xml_mapping)
    /\ Len(output.columns) = 3
    /\ Len(listing) = 2

\* C7: extract_from_met on readable lines: each mapped column gets the
\* trimmed text after the first ':' of the last line whose trimmed text before
\* its first ':' is the column's key, and None when there is no such line.
FirstColon(line) ==
    CHOOSE j \in DOMAIN line :
        line[j] = ":" /\ \A h \in 1..(j - 1) : line[h] # ":"
Trimmed(s) ==
    LET solid == {i \in DOMAIN s : s[i] # " "}
    IN  IF solid = {} THEN <<>>
        ELSE SubSeq(s, CHOOSE i \in solid : \A h \in solid : i <= h,
                       CHOOSE i \in solid : \A h \in solid : i >= h)
LineKey(line) == Trimmed(SubSeq(line, 1, FirstColon(line) - 1))
LineValue(line) == Trimmed(SubSeq(line, FirstColon(line) + 1, Len(line)))
Occurrences(lines, key) ==
    {i \in DOMAIN lines : HasColon(lines[i]) /\ LineKey(lines[i]) = key}
LastValue(lines, key) ==
    IF Occurrences(lines, key) = {} THEN None
    ELSE Some(LineValue(lines[CHOOSE i \in Occurrences(lines, key) :
                                  \A h \in Occurrences(lines, key) : i >= h]))

C7_MetRecord ==
    (pc = "returned" /\ fn_file.kind = "text") =>
        /\ fn_result.status = "record"
        /\ DOMAIN fn_result.rec = KeySet(met_mapping)
        /\ \A i \in DOMAIN met_mapping :
              fn_result.rec[met_mapping[i][1]] = LastValue(fn_file.lines, met_mapping[i][2])

\* two lines with the same (empty) key and different values, the later one
\* holding a second ':' that stays in the value; another mapped key never occurs
C7_Witness ==
    /\ pc = "returned"
    /\ fn_file.kind = "text"
    /\ Len(fn_file.lines) = 2
    /\ fn_file.lines[1] = <<":", "k">>
    /\ fn_file.lines[2] = <<":", ":">>
    /\ fn_result.rec["Full Name"] = Some(<<":">>)
    /\ fn_result.rec["Age"] = None

\* C8: extract_from_xml on a well-formed document: the record's keys are the
\* mapping's columns; a column holds the text of the first element in
\* document order that its path reaches, and None when the path reaches none.
RECURSIVE Reached(_, _)
Reached(node, path) ==
    IF path = <<>> THEN {<<>>}
    ELSE UNION { {<<i>> \o q : q \in Reached(node.children[i], Tail(path))} :
                 i \in {k \in DOMAIN node.children : node.children[k].tag = Head(path)} }
RECURSIVE NodeAt(_, _)
NodeAt(node, pos) ==
    IF pos = <<>> THEN node ELSE NodeAt(node.children[Head(pos)], Tail(pos))
RECURSIVE Before(_, _)
Before(p, q) ==
    /\ p # <<>>
    /\ \/ Head(p) < Head(q)
       \/ Head(p) = Head(q) /\ Before(Tail(p), Tail(q))
MatchedText(root, path) ==
    IF Reached(root, path) = {} THEN None
    ELSE NodeAt(root, CHOOSE p \in Reached(root, path) :
                          \A q \in Reached(root, path) : p = q \/ Before(p, q)).text

C8_XmlRecord ==
    (pc = "returned" /\ fn_file.kind = "doc") =>
        /\ fn_result.status = "record"
        /\ DOMAIN fn_result.rec = KeySet(xml_mapping)
        /\ \A i \in DOMAIN xml_mapping :
              fn_result.rec[xml_mapping[i][1]] = MatchedText(fn_file.root, xml_mapping[i][2])

\* a path with two matches of different text, and a path with no match
C8_Witness ==
    /\ pc = "returned"
    /\ fn_file.kind = "doc"
    /\ Len(xml_mapping) = 3
    /\ Cardinality(Reached(fn_file.root, <<"a">>)) = 2
    /\ fn_file.root.children[1].text = Some(<<"p">>)
    /\ fn_file.root.children[2].text = Some(<<"q">>)
    /\ fn_result.rec["Full Name"] = Some(<<"p">>)
    /\ fn_result.rec["Email Address"] = None

\* C9: the output is written at most once, only when every entry has been
\* processed, and then it holds one row per collected record; otherwise
\* nothing is written.
C9_WrittenOnceAtEnd ==
    /\ writes <= 1
    /\ writes = 1 =>
          /\ Len(trace) = Len(listing)
          /\ idx = Len(listing) + 1
          /\ pc = "done"
          /\ Len(output.rows) = Len(all_records)
    /\ writes = 0 => output = NoTable

C9_Witness ==
    /\ writes = 1
    /\ Len(listing) = 2
    /\ Len(output.rows) = 2

\* C10: every exported row has exactly the union of the two mappings' keys
\* as its columns; a cell is the record's value where the record has the
\* column and empty where it has not.
C10_RowsHaveUnionColumns ==
    writes >= 1 =>
        /\ Len(output.rows) = Len(all_records)
        /\ \A i \in DOMAIN output.rows :
              /\ DOMAIN output.rows[i] = KeySet(xml_mapping) \cup KeySet(met_mapping)
              /\ \A c \in DOMAIN output.rows[i] :
                    output.rows[i][c] = IF c \in DOMAIN all_records[i]
                                        THEN all_records[i][c]
                                        ELSE None

C10_Witness ==
    /\ writes = 1
    /\ \E c \in KeySet(met_mapping) \ KeySet(xml_mapping) :
          \E i \in DOMAIN output.rows : output.rows[i][c] = None
    /\ \E c \in KeySet(xml_mapping) \ KeySet(met_mapping) :
          \E i \in DOMAIN output.rows : output.rows[i][c] # None

====
